---- MODULE Spec2Model ----
(***************************************************************************)
(* A model of scripts/collectCitiBikeNycData.py: the month enumerator      *)
(* (generate_date_strings), the most-recent-period computation             *)
(* (get_most_recent_date), the downloader (download_file), the extractor   *)
(* (unzip_file) and the orchestrator (download_and_unzip, main).           *)
(*                                                                         *)
(* Two specifications share the variables:                                 *)
(*   Spec     one run of main(): the clock, the command line and every     *)
(*            outcome of the network and of the archive library are chosen *)
(*            nondeterministically;                                        *)
(*   SpecFn   the two date functions called on arbitrary dates.            *)
(***************************************************************************)
EXTENDS Integers, Sequences, FiniteSets, TLC

VARIABLES
    pc,            \* position of the run
    today,         \* date.today() as read by get_most_recent_date
    args,          \* parse_args(): [url, backfill]
    mode,          \* the branch main() took: "url", "backfill", "default"
    start_date,    \* generate_date_strings: its start_date argument
    end_date,      \* generate_date_strings: its end_date argument
    current_date,  \* generate_date_strings: its loop variable
    gen,           \* the generator: "fresh", "suspended", "exhausted"
    yielded,       \* the tokens the generator has yielded so far
    recent,        \* the value get_most_recent_date returned
    url,           \* download_and_unzip: its url argument
    zip_path,      \* download_and_unzip: what download_file returned
    unzip_result,  \* download_and_unzip: what unzip_file returned
    error,         \* the exception the current stage caught
    n_entries,     \* number of entries of the archive being extracted
    next_entry,    \* extractall: the entry it extracts next
    files,         \* archive files in DATA_DIR: name -> "partial" | "complete"
    extracted,     \* extracted entries in DATA_DIR: <<archive name, index>>
    attempted,     \* history: the urls download_and_unzip was called with
    downloaded,    \* history: the paths download_file returned
    extract_done   \* history: the archives whose extractall returned

vars == <<pc, today, args, mode, start_date, end_date, current_date, gen,
          yielded, recent, url, zip_path, unzip_result, error, n_entries,
          next_entry, files, extracted, attempted, downloaded, extract_done>>

----------------------------------------------------------------------------
(* datetime.date *)

IsLeap(y) == (y % 4 = 0 /\ y % 100 # 0) \/ y % 400 = 0

DaysInMonth(y, m) ==
    IF m = 2 THEN (IF IsLeap(y) THEN 29 ELSE 28)
    ELSE IF m \in {4, 6, 9, 11} THEN 30 ELSE 31

Date(y, m, d) == [year |-> y, month |-> m, day |-> d]

\* date.__le__ : dates are ordered by (year, month, day)
DateLeq(a, b) ==
    \/ a.year < b.year
    \/ a.year = b.year /\ a.month < b.month
    \/ a.year = b.year /\ a.month = b.month /\ a.day <= b.day

\* d - timedelta(days=1)
MinusOneDay(d) ==
    IF d.day > 1 THEN Date(d.year, d.month, d.day - 1)
    ELSE IF d.month > 1
         THEN Date(d.year, d.month - 1, DaysInMonth(d.year, d.month - 1))
         ELSE Date(d.year - 1, 12, 31)

\* d.strftime("%Y%m"): four digits of the year, two of the month
Strftime(d) ==
    << d.year \div 1000, (d.year \div 100) % 10, (d.year \div 10) % 10,
       d.year % 10, d.month \div 10, d.month % 10 >>

\* str.__le__ : lexicographic order of two strings of digits
RECURSIVE StrLeq(_, _)
StrLeq(a, b) ==
    IF a = <<>> THEN TRUE
    ELSE IF b = <<>> THEN FALSE
    ELSE IF Head(a) # Head(b) THEN Head(a) < Head(b)
    ELSE StrLeq(Tail(a), Tail(b))

----------------------------------------------------------------------------
(* get_most_recent_date *)

get_most_recent_date_noreplace(t) == MinusOneDay(t)

get_most_recent_date(t) ==
    LET first_day_of_month == [t EXCEPT !.day = 1]
    IN  MinusOneDay(first_day_of_month)

----------------------------------------------------------------------------
(* generate_date_strings *)

\* the loop condition, line 70
GenContinues(cur, endd) == DateLeq(cur, endd)

\* lines 73-76: the first day of the next month
NextMonthFirst(d) ==
    IF d.month = 12 THEN Date(d.year + 1, 1, 1)
    ELSE Date(d.year, d.month + 1, 1)

\* the whole generator, as the list of what it yields
RECURSIVE generate_date_strings(_, _)
generate_date_strings(cur, endd) ==
    IF GenContinues(cur, endd)
    THEN <<Strftime(cur)>> \o generate_date_strings(NextMonthFirst(cur), endd)
    ELSE <<>>

----------------------------------------------------------------------------
(* strings: a url is its directory part (up to and including the last '/') *)
(* followed by the pieces of its last path segment                         *)

Str(dir, date_str, stem, suffix, ext) ==
    [base |-> dir, date_str |-> date_str, stem |-> stem,
     suffix |-> suffix, ext |-> ext]

EmptyStr == Str("", <<>>, "", "", "")

\* os.path.basename(urlparse(url).path): what follows the last '/'
Basename(u) == [u EXCEPT !.base = ""]

\* os.path.join(DATA_DIR, filename): one path per filename
OutputPath(filename) == filename

DATA_SOURCE_URL == "https://s3.amazonaws.com/tripdata/"

\* the literal '202404' of line 215
LegacyCutoff == <<2, 0, 2, 4, 0, 4>>

\* line 215: date_str <= '202404' and '.csv' or ''
LegacySuffix(date_str) == IF StrLeq(date_str, LegacyCutoff) THEN ".csv" ELSE ""

\* line 215, the f-string of backfill mode
BackfillUrl(date_str) ==
    Str(DATA_SOURCE_URL, date_str, "-citibike-tripdata",
        LegacySuffix(date_str), ".zip")

\* line 221, the f-string of default mode
DefaultUrl(date_str) ==
    Str(DATA_SOURCE_URL, date_str, "-citibike-tripdata", "", ".zip")

\* line 210
BackfillStart == Date(2024, 1, 1)

----------------------------------------------------------------------------
(* bounds and inputs *)

\* backfill covers at most this many periods: the clock runs from 2023-12
\* to MaxPeriods months after 2024-01
MaxPeriods == 3

\* an archive holds at most this many entries
MaxEntries == 2

\* SpecFn: the clock runs over this many years after 2023
FnYears == 2

\* SpecFn: start_date and end_date run over this many months from 2024-10
GenSpan == 5

MonthIndex(d) == d.year * 12 + (d.month - 1)

FirstOfIndex(i) == Date(i \div 12, (i % 12) + 1, 1)

DatesOfIndex(i, days) ==
    { Date(i \div 12, (i % 12) + 1, d) :
        d \in { x \in days : x <= DaysInMonth(i \div 12, (i % 12) + 1) } }

Todays ==
    UNION { DatesOfIndex(i, {1, 31}) :
              i \in (MonthIndex(BackfillStart) - 1) ..
                    (MonthIndex(BackfillStart) + MaxPeriods) }

ExplicitUrls ==
    { Str("https://example.org/files/", <<>>, "trips", "", ".zip"),
      Str(DATA_SOURCE_URL, <<2, 0, 2, 4, 0, 3>>, "-citibike-tripdata", "", ".zip"),
      Str("https://example.org/files/", <<>>, "", "", "") }

\* args.url: None (not given), '' or a url
ArgUrls ==
    { [given |-> FALSE, value |-> EmptyStr], [given |-> TRUE, value |-> EmptyStr] }
    \cup { [given |-> TRUE, value |-> u] : u \in ExplicitUrls }

Args == [url : ArgUrls, backfill : BOOLEAN]

\* truth value of args.url: None and '' are false
Truthy(u) == u.given /\ u.value # EmptyStr

FnTodays ==
    UNION { DatesOfIndex(i, 1 .. 31) :
              i \in MonthIndex(Date(2023, 1, 1)) ..
                    (MonthIndex(Date(2023, 12, 1)) + 12 * FnYears) }

GenDates ==
    UNION { DatesOfIndex(i, {1, 2, 15, 28, 30, 31}) :
              i \in MonthIndex(Date(2024, 10, 1)) ..
                    (MonthIndex(Date(2024, 10, 1)) + GenSpan) }

NoDate == Date(0, 0, 0)
NoArgs == [url |-> [given |-> FALSE, value |-> EmptyStr], backfill |-> FALSE]
NoPath == [ok |-> FALSE, path |-> EmptyStr]
Path(p) == [ok |-> TRUE, path |-> p]

----------------------------------------------------------------------------
(* the filesystem: DATA_DIR *)

Present(fs, p) == \E f \in fs : f.name = p

\* open(output_path, 'wb'): creates the file, or truncates the one there
OpenForWrite(fs, p) ==
    { f \in fs : f.name # p } \cup { [name |-> p, complete |-> FALSE] }

\* the with block of lines 106-109 ran to its end: every chunk is written
WriteAll(fs, p) ==
    { f \in fs : f.name # p } \cup { [name |-> p, complete |-> TRUE] }

RemoveKeeps(fs, p) == fs

\* os.remove(zip_path), line 144
Remove(fs, p) == { f \in fs : f.name # p }

UnzipErrorRemoves(fs, p) == { f \in fs : f.name # p }

\* lines 149-154: the handlers of unzip_file log and return False
UnzipErrorKeeps(fs, p) == fs

\* extractall writes entry i of archive p into DATA_DIR, line 139
ExtractOne(ex, p, i) == ex \cup { <<p, i>> }

EntriesOf(ex, p) == { e \in ex : e[1] = p }

----------------------------------------------------------------------------
(* what the except clauses catch; anything else leaves main() *)

DownloadCatchesOnlyRequest(e) == e = "RequestException"

\* lines 114-119: RequestException, then Exception
DownloadCatches(e) == e \in {"RequestException", "ValueError", "Exception"}

\* lines 149-154: BadZipFile, then Exception
UnzipCatches(e) == e \in {"BadZipFile", "Exception", "OSError"}

----------------------------------------------------------------------------
(* main: the branch taken, lines 205-222 *)

MainBranchBackfillFirst(a) ==
    IF a.backfill THEN "backfill"
    ELSE IF Truthy(a.url) THEN "url" ELSE "default"

MainBranch(a) ==
    IF Truthy(a.url) THEN "url"
    ELSE IF a.backfill THEN "backfill" ELSE "default"

\* download_and_unzip returned: the for loop goes on, the other modes end
AfterPipeline(m) == IF m = "backfill" THEN "for" ELSE "done"

----------------------------------------------------------------------------
(* the state after construction *)

Locals ==
    /\ url = EmptyStr
    /\ zip_path = NoPath
    /\ unzip_result = "None"
    /\ error = "None"
    /\ n_entries = 0
    /\ next_entry = 0

ClearLocals ==
    /\ url' = EmptyStr
    /\ zip_path' = NoPath
    /\ unzip_result' = "None"
    /\ error' = "None"
    /\ n_entries' = 0
    /\ next_entry' = 0

Init ==
    /\ pc = "main"
    /\ today \in Todays
    /\ args \in Args
    /\ mode = "None"
    /\ start_date = NoDate
    /\ end_date = NoDate
    /\ current_date = NoDate
    /\ gen = "None"
    /\ yielded = <<>>
    /\ recent = NoDate
    /\ Locals
    /\ files = {}
    /\ extracted = {}
    /\ attempted = <<>>
    /\ downloaded = {}
    /\ extract_done = {}

----------------------------------------------------------------------------
(* generate_date_strings, one resumption: lines 69-76 *)

GenResume ==
    LET cur == IF gen = "fresh" THEN start_date
               ELSE NextMonthFirst(current_date)
    IN  /\ current_date' = cur
        /\ IF GenContinues(cur, end_date)
           THEN /\ gen' = "suspended"
                /\ yielded' = Append(yielded, Strftime(cur))
           ELSE /\ gen' = "exhausted"
                /\ yielded' = yielded

----------------------------------------------------------------------------
(* main *)

\* lines 203-213 and 218-222: parse_args and the branch
Main ==
    /\ pc = "main"
    /\ mode' = MainBranch(args)
    /\ CASE mode' = "url" ->
              /\ url' = args.url.value
              /\ attempted' = Append(attempted, url')
              /\ pc' = "download_file"
              /\ UNCHANGED <<start_date, end_date, gen, recent>>
         [] mode' = "backfill" ->
              /\ start_date' = BackfillStart
              /\ recent' = get_most_recent_date(today)
              /\ end_date' = recent'
              /\ gen' = "fresh"
              /\ pc' = "for"
              /\ UNCHANGED <<url, attempted>>
         [] OTHER ->
              /\ recent' = get_most_recent_date(today)
              /\ url' = DefaultUrl(Strftime(recent'))
              /\ attempted' = Append(attempted, url')
              /\ pc' = "download_file"
              /\ UNCHANGED <<start_date, end_date, gen>>
    /\ UNCHANGED <<today, args, current_date, yielded, zip_path, unzip_result,
                   error, n_entries, next_entry, files, extracted, downloaded,
                   extract_done>>

\* lines 214-217: the for loop takes the next token, or ends
ForNext ==
    /\ pc = "for"
    /\ GenResume
    /\ IF gen' = "suspended"
       THEN /\ url' = BackfillUrl(yielded'[Len(yielded')])
            /\ attempted' = Append(attempted, url')
            /\ pc' = "download_file"
       ELSE /\ pc' = "done"
            /\ UNCHANGED <<url, attempted>>
    /\ UNCHANGED <<today, args, mode, start_date, end_date, recent, zip_path,
                   unzip_result, error, n_entries, next_entry, files,
                   extracted, downloaded, extract_done>>

----------------------------------------------------------------------------
(* download_file *)

\* an exception of download_file: caught (return None, line 191 sees a false
\* zip_path) or not
DownloadRaises(e) ==
    /\ error' = e
    /\ zip_path' = NoPath
    /\ pc' = IF DownloadCatches(e) THEN "return" ELSE "crashed"

\* lines 89-106: mkdir, the filename, the request, its status, open()
DownloadOpen ==
    /\ pc = "download_file"
    /\ LET filename == Basename(url)
       IN  IF filename = EmptyStr
           THEN /\ DownloadRaises("ValueError")
                /\ UNCHANGED files
           ELSE \E outcome \in {"ok", "RequestException", "Exception"} :
                  IF outcome = "ok"
                  THEN /\ files' = OpenForWrite(files, OutputPath(filename))
                       /\ pc' = "download_body"
                       /\ UNCHANGED <<error, zip_path>>
                  ELSE /\ DownloadRaises(outcome)
                       /\ UNCHANGED files
    /\ UNCHANGED <<today, args, mode, start_date, end_date, current_date, gen,
                   yielded, recent, url, unzip_result, n_entries, next_entry,
                   extracted, attempted, downloaded, extract_done>>

\* lines 107-112: the chunks are written; the stream may break before its end
DownloadBody ==
    /\ pc = "download_body"
    /\ LET output_path == OutputPath(Basename(url))
       IN  \E outcome \in {"ok", "RequestException", "Exception"} :
             IF outcome = "ok"
             THEN /\ files' = WriteAll(files, output_path)
                  /\ zip_path' = Path(output_path)
                  /\ downloaded' = downloaded \cup {output_path}
                  /\ pc' = "unzip_file"
                  /\ UNCHANGED error
             ELSE /\ DownloadRaises(outcome)
                  /\ UNCHANGED <<files, downloaded>>
    /\ UNCHANGED <<today, args, mode, start_date, end_date, current_date, gen,
                   yielded, recent, url, unzip_result, n_entries, next_entry,
                   extracted, attempted, extract_done>>

----------------------------------------------------------------------------
(* unzip_file *)

\* an exception of unzip_file: caught (return False) or not
UnzipRaises(e) ==
    /\ error' = e
    /\ files' = UnzipErrorKeeps(files, zip_path.path)
    /\ IF UnzipCatches(e)
       THEN pc' = "return" /\ unzip_result' = "False"
       ELSE pc' = "crashed" /\ unzip_result' = "None"

\* lines 132-138: mkdir and ZipFile(zip_path, 'r'), which reads the directory
UnzipOpen ==
    /\ pc = "unzip_file"
    /\ \/ \E n \in 0 .. MaxEntries :
            /\ n_entries' = n
            /\ next_entry' = 1
            /\ pc' = "extractall"
            /\ UNCHANGED <<error, files, unzip_result>>
       \/ \E e \in {"BadZipFile", "Exception"} :
            /\ UnzipRaises(e)
            /\ UNCHANGED <<n_entries, next_entry>>
    /\ UNCHANGED <<today, args, mode, start_date, end_date, current_date, gen,
                   yielded, recent, url, zip_path, extracted, attempted,
                   downloaded, extract_done>>

\* line 139, one entry of extractall: written, or an error (a bad header
\* before the entry's file is created, a bad CRC-32 after it is written)
ExtractEntry ==
    /\ pc = "extractall"
    /\ next_entry <= n_entries
    /\ \/ /\ extracted' = ExtractOne(extracted, zip_path.path, next_entry)
          /\ next_entry' = next_entry + 1
          /\ UNCHANGED <<pc, error, files, unzip_result>>
       \/ \E e \in {"BadZipFile", "Exception"}, written \in BOOLEAN :
            /\ extracted' = IF written
                            THEN ExtractOne(extracted, zip_path.path, next_entry)
                            ELSE extracted
            /\ UnzipRaises(e)
            /\ UNCHANGED next_entry
    /\ UNCHANGED <<today, args, mode, start_date, end_date, current_date, gen,
                   yielded, recent, url, zip_path, n_entries, attempted,
                   downloaded, extract_done>>

\* lines 141-147: extractall returned; os.remove, then return True
RemoveZip ==
    /\ pc = "extractall"
    /\ next_entry > n_entries
    /\ extract_done' = extract_done \cup {zip_path.path}
    /\ \/ /\ files' = Remove(files, zip_path.path)
          /\ unzip_result' = "True"
          /\ pc' = "return"
          /\ UNCHANGED error
       \/ UnzipRaises("OSError")
    /\ UNCHANGED <<today, args, mode, start_date, end_date, current_date, gen,
                   yielded, recent, url, zip_path, n_entries, next_entry,
                   extracted, attempted, downloaded>>

----------------------------------------------------------------------------
(* download_and_unzip returns: lines 191-198 log the outcome *)

Return ==
    /\ pc = "return"
    /\ pc' = AfterPipeline(mode)
    /\ ClearLocals
    /\ UNCHANGED <<today, args, mode, start_date, end_date, current_date, gen,
                   yielded, recent, files, extracted, attempted, downloaded,
                   extract_done>>

Next ==
    \/ Main
    \/ ForNext
    \/ DownloadOpen
    \/ DownloadBody
    \/ UnzipOpen
    \/ ExtractEntry
    \/ RemoveZip
    \/ Return

Spec == Init /\ [][Next]_vars

----------------------------------------------------------------------------
(* SpecFn: get_most_recent_date and generate_date_strings on their own *)

InitFn ==
    /\ \/ /\ pc = "call_recent"
          /\ today \in FnTodays
          /\ start_date = NoDate
          /\ end_date = NoDate
          /\ gen = "None"
       \/ /\ pc = "call_generate"
          /\ today = NoDate
          /\ start_date \in GenDates
          /\ end_date \in GenDates
          /\ gen = "fresh"
    /\ args = NoArgs
    /\ mode = "None"
    /\ current_date = NoDate
    /\ yielded = <<>>
    /\ recent = NoDate
    /\ Locals
    /\ files = {}
    /\ extracted = {}
    /\ attempted = <<>>
    /\ downloaded = {}
    /\ extract_done = {}

\* lines 53-55
CallMostRecent ==
    /\ pc = "call_recent"
    /\ recent' = get_most_recent_date(today)
    /\ pc' = "fn_done"
    /\ UNCHANGED <<today, args, mode, start_date, end_date, current_date, gen,
                   yielded, url, zip_path, unzip_result, error, n_entries,
                   next_entry, files, extracted, attempted, downloaded,
                   extract_done>>

\* next() on the generator, until it is exhausted
CallGenerate ==
    /\ pc = "call_generate"
    /\ GenResume
    /\ pc' = IF gen' = "exhausted" THEN "fn_done" ELSE pc
    /\ UNCHANGED <<today, args, mode, start_date, end_date, recent, url,
                   zip_path, unzip_result, error, n_entries, next_entry, files,
                   extracted, attempted, downloaded, extract_done>>

NextFn ==
    \/ CallMostRecent
    \/ CallGenerate

SpecFn == InitFn /\ [][NextFn]_vars

----------------------------------------------------------------------------
(* helpers of the properties *)

\* the token of the month with index i
TokenOfIndex(i) == Strftime(FirstOfIndex(i))

\* the tokens of the months i .. j, in order
TokensBetween(i, j) ==
    [k \in 1 .. (IF j >= i THEN j - i + 1 ELSE 0) |-> TokenOfIndex(i + k - 1)]

\* the number a string of digits denotes
RECURSIVE DigitsValue(_)
DigitsValue(ds) ==
    IF ds = <<>> THEN 0
    ELSE 10 * DigitsValue(SubSeq(ds, 1, Len(ds) - 1)) + ds[Len(ds)]

\* the periods backfill has to cover: 2024-01 to the month before the clock's
BackfillPeriods ==
    TokensBetween(MonthIndex(Date(2024, 1, 1)), MonthIndex(today) - 1)

ArchiveOf(u) == OutputPath(Basename(u))

----------------------------------------------------------------------------
(* properties of a run, checked under Spec *)

\* C1: in backfill mode (--backfill, no --url), whatever the downloads and
\* extractions do, download_and_unzip is called for every period from
\* 2024-01 to the month before the current one, once each and in increasing
\* order; no failure ends the run, skips a period or repeats one.
C1_BackfillEveryPeriodOnce ==
    (args.backfill /\ ~args.url.given) =>
        /\ pc # "crashed"
        /\ pc # "done" => ENABLED Next
        /\ Len(attempted) <= Len(BackfillPeriods)
        /\ \A k \in 1 .. Len(attempted) :
              attempted[k] = BackfillUrl(BackfillPeriods[k])
        /\ Len(yielded) = Len(attempted)
        /\ pc = "done" => Len(attempted) = Len(BackfillPeriods)
        /\ (pc = "return" /\ unzip_result # "True") => AfterPipeline(mode) = "for"

\* C1 witness: a backfill over three periods has ended after a download that
\* broke and an extraction that failed.
C1_Witness ==
    /\ pc = "done"
    /\ args.backfill /\ ~args.url.given
    /\ Len(attempted) = 3
    /\ \E f \in files : ~f.complete
    /\ \E f \in files : f.complete /\ f.name \notin extract_done

\* C2: an archive that was downloaded is absent from DATA_DIR only if
\* extractall returned for it; when unzip_file fails it returns False and the
\* archive is still there, whole.
C2_ArchiveDeletedOnlyAfterExtraction ==
    /\ \A p \in downloaded : ~Present(files, p) => p \in extract_done
    /\ (pc \in {"unzip_file", "extractall"}) =>
          [name |-> zip_path.path, complete |-> TRUE] \in files
    /\ (pc = "return" /\ zip_path.ok /\ unzip_result # "True") =>
          /\ unzip_result = "False"
          /\ [name |-> zip_path.path, complete |-> TRUE] \in files

\* C2 witness: unzip_file has just failed on an invalid archive, after an
\* earlier archive of the run was extracted and deleted.
C2_Witness ==
    /\ pc = "return"
    /\ unzip_result = "False"
    /\ error = "BadZipFile"
    /\ \E p \in downloaded : ~Present(files, p)

\* C3 (as claimed): a download that fails, at any point, leaves no archive
\* file of that url and no entry extracted from it, and no extraction is
\* attempted.
C3_FailedDownloadLeavesNothing ==
    (pc = "return" /\ ~zip_path.ok) =>
        /\ ~Present(files, ArchiveOf(url))
        /\ EntriesOf(extracted, ArchiveOf(url)) = {}
        /\ unzip_result = "None"

\* C4: with --url <url>, download_and_unzip is called once, with that url as
\* given, and with no url made from a token, with or without --backfill.
C4_ExplicitUrlOnly ==
    Truthy(args.url) =>
        /\ yielded = <<>>
        /\ recent = NoDate
        /\ pc # "main" => attempted = <<args.url.value>>
        /\ pc \in {"download_file", "download_body", "unzip_file",
                   "extractall", "return"} => url = args.url.value
        /\ pc \notin {"for", "crashed"}

\* C4 witness: a run with --url and --backfill has ended.
C4_Witness ==
    /\ pc = "done"
    /\ Truthy(args.url)
    /\ args.backfill
    /\ attempted = <<args.url.value>>

\* C5 (as claimed): every url made from a token, in default mode as in
\* backfill mode, has the suffix '.csv' when the token is at most 202404 and
\* no suffix when it is later.
C5_LegacySuffixEveryMode ==
    (mode \in {"backfill", "default"}) =>
        \A k \in 1 .. Len(attempted) :
            attempted[k].suffix =
                IF DigitsValue(attempted[k].date_str) <= 202404
                THEN ".csv" ELSE ""

\* C8 (as claimed): when extraction fails on a corrupted archive, the archive
\* stays and DATA_DIR holds no entry extracted from it.
C8_FailedExtractionLeavesNoEntry ==
    (pc = "return" /\ unzip_result = "False"
       /\ error \in {"BadZipFile", "Exception"}) =>
        /\ [name |-> zip_path.path, complete |-> TRUE] \in files
        /\ EntriesOf(extracted, zip_path.path) = {}

\* C9: when download_file and unzip_file both succeed, download_and_unzip
\* ends with every entry of the archive in DATA_DIR and the archive gone.
C9_SuccessExtractsAllAndDeletes ==
    (pc = "return" /\ zip_path.ok /\ unzip_result = "True") =>
        /\ \A i \in 1 .. n_entries : <<zip_path.path, i>> \in extracted
        /\ ~Present(files, zip_path.path)
        /\ zip_path.path = ArchiveOf(url)

\* C9 witness: an archive of two entries was downloaded and extracted.
C9_Witness ==
    /\ pc = "return"
    /\ zip_path.ok
    /\ unzip_result = "True"
    /\ n_entries >= 2

----------------------------------------------------------------------------
(* properties of the date functions, checked under SpecFn *)

\* C6 (as claimed): when start's month is not after end's month, the
\* generator ends having yielded one token per month from start's month to
\* end's month, in order.
C6_OneTokenPerMonth ==
    (pc = "fn_done" /\ gen = "exhausted"
       /\ MonthIndex(start_date) <= MonthIndex(end_date)) =>
        yielded = TokensBetween(MonthIndex(start_date), MonthIndex(end_date))

\* C7 (as claimed): the tokens depend only on the year and month of the two
\* dates: any other days of the same months give the same tokens.
C7_DayOfMonthIgnored ==
    (pc = "fn_done" /\ gen = "exhausted") =>
        \A s \in DatesOfIndex(MonthIndex(start_date), 1 .. 31),
           e \in DatesOfIndex(MonthIndex(end_date), 1 .. 31) :
            generate_date_strings(s, e) = yielded

\* C10: get_most_recent_date returns a day (the last) of the month before the
\* current date's month, whatever the day: December of the year before for a
\* date in January, and 202502 for 2025-03-15.
C10_MostRecentIsPreviousMonth ==
    (pc = "fn_done" /\ gen = "None") =>
        /\ MonthIndex(recent) = MonthIndex(today) - 1
        /\ Strftime(recent) = TokenOfIndex(MonthIndex(today) - 1)
        /\ recent.day = DaysInMonth(recent.year, recent.month)
        /\ today.month = 1 =>
              recent.year = today.year - 1 /\ recent.month = 12
        /\ today = Date(2025, 3, 15) => Strftime(recent) = <<2, 0, 2, 5, 0, 2>>

\* C10 witness: the computation was made for 2025-03-15.
C10_Witness ==
    /\ pc = "fn_done"
    /\ today = Date(2025, 3, 15)
    /\ Strftime(recent) = <<2, 0, 2, 5, 0, 2>>

====
